---- MODULE Spec2Model ----
(***************************************************************************)
(* Thread-local structures of the hazard-pointer library:                  *)
(*   hazptr_tc    thread cache of hazptr_rec-s (GuardCache)                *)
(*   hazptr_priv  per-thread list of retired objects (RetiredBuffer)       *)
(* folly/synchronization/HazptrThrLocal.h                                  *)
(***************************************************************************)
EXTENDS Integers, Sequences, FiniteSets, TLC

(***************************************************************************)
(* Program constants.                                                      *)
(***************************************************************************)
kCapacity == 6
max_fills == 10
\* std::chrono::milliseconds(1); the clock of the model counts milliseconds.
period == 1
kThreshold == 20

(***************************************************************************)
(* Bounds of the model.                                                    *)
(***************************************************************************)
\* number of hazptr_rec records the domain owns
NumHandles == 7
\* largest argument passed to fill / evict
MaxNum == 7
\* last reading of the steady clock
MaxTime == 2
\* number of calls made on one cache
MaxCalls == 6
\* number of refills of one cache
MaxRateCalls == 22
\* number of objects a thread retires
MaxObjs == 22
\* number of objects a thread retires one after the other (>= MaxObjs)
MaxSeqObjs == 45
\* number of nested activations of push and ~hazptr_priv
MaxDepth == 3
\* number of calls of collect the domain makes from another thread
MaxCollects == 2

Null == 0
Handles == 1..NumHandles
Slots == 0..(kCapacity - 1)
Uint8(x) == x % 256
Uint16(x) == x % 65536

VARIABLES
  \* ---- hazptr_tc
  entry_,            \* entry_[kCapacity], the hprec_ of every hazptr_tc_entry
  count_,            \* count_
  num_fills_,        \* num_fills_
  first_fill_time_,  \* first_fill_time_
  \* ---- environment of hazptr_tc
  now,              \* the reading std::chrono::steady_clock::now() returns
  dcheck,           \* TRUE in a build where DCHECK is active (NDEBUG not set)
  free,             \* records the domain holds inactive
  held,             \* records the caller of the cache holds
  status,           \* "live", "destroyed", "aborted" (fatal check), "ub"
  \* ---- observation of the last call
  op,               \* the last call: name, argument, result
  dcalls,           \* the calls the last call made to the domain, in order
  touched,          \* the indexes of entry_ the last call read or wrote
  ncalls,           \* the number of calls made so far
  call_limit,       \* the number of calls of the run
  fill_log,         \* the last max_fills + 1 runs of the refill-rate check:
                    \* the clock reading, and whether the run began a window
  \* ---- hazptr_priv
  head_,            \* head_
  tail_,            \* tail_
  rcount_,          \* rcount_
  in_dtor_,         \* in_dtor_
  \* ---- environment of hazptr_priv
  next_,            \* the next-link of every hazptr_obj
  stack,            \* the activations of push and ~hazptr_priv on the thread
  retired,          \* the lists handed to hazptr_domain_push_retired, in order
  nobjs,            \* the number of objects retired so far
  pstatus,          \* "live", "destroyed", "aborted" (fatal check)
  \* ---- the domain, on another thread, calling collect on this hazptr_priv
  collector,        \* its position in collect, the head it took, its calls
  segments          \* what its calls of collect returned, in order

tcVars == <<entry_, count_, num_fills_, first_fill_time_, now, dcheck, free, held,
            status, op, dcalls, touched, ncalls, call_limit, fill_log>>

privVars == <<head_, tail_, rcount_, in_dtor_, next_, stack, retired, nobjs,
              pstatus>>

colVars == <<collector, segments>>

vars == <<tcVars, privVars, colVars>>

\* A call is made on a live cache, call_limit times at most.
Called ==
  /\ status = "live"
  /\ ncalls < call_limit
  /\ ncalls' = ncalls + 1
  /\ UNCHANGED call_limit
  /\ UNCHANGED <<privVars, colVars>>


Call(name, arg, ok, ret) == [name |-> name, arg |-> arg, ok |-> ok, ret |-> ret]

(***************************************************************************)
(* The domain (external): hprec_acquire hands out an inactive record,      *)
(* hazptr_rec::release makes a record inactive again.                      *)
(***************************************************************************)
Min(S) == CHOOSE x \in S : \A y \in S : x <= y

hprec_acquire(f) == Min(f)

hprec_release(f, h) == f \cup {h}

(***************************************************************************)
(* hazptr_tc_entry                                                         *)
(***************************************************************************)
entry_fill(e, i, hprec) == IF i \in DOMAIN e THEN [e EXCEPT ![i] = hprec] ELSE e

\* (a read outside entry_ yields whatever lies there)
entry_get(e, i) == IF i \in DOMAIN e THEN e[i] ELSE Null

\* (the record is dropped, not released)
entry_evict_leak(s, i) == [s EXCEPT !.touched = s.touched \cup {i}]

(***************************************************************************)
(* hazptr_tc                                                               *)
(***************************************************************************)
TcInit(limit) ==
  /\ call_limit = limit
  /\ entry_ = [i \in Slots |-> Null]
  /\ count_ = 0
  /\ num_fills_ = 0
  /\ first_fill_time_ = 0
  /\ now = 0
  /\ dcheck \in BOOLEAN
  /\ free = Handles
  /\ held = {}
  /\ status = "live"
  /\ op = Call("init", 0, TRUE, Null)
  /\ dcalls = <<>>
  /\ touched = {}
  /\ ncalls = 0
  /\ fill_log = <<>>

\* if (count_ > 0) { return entry_[--count_].get(); } return nullptr;
try_get_miss == count_ >= 0

try_get_hit == count_ > 0

try_get_top == count_

try_get_index == Uint8(count_ + 255)

try_get ==
  /\ Called
  /\ IF try_get_hit
       THEN LET c == try_get_index IN
            /\ count_' = c
            /\ touched' = {c}
            /\ op' = Call("try_get", 0, TRUE, entry_get(entry_, c))
            /\ held' = held \cup {entry_get(entry_, c)}
       ELSE /\ op' = Call("try_get", 0, FALSE, Null)
            /\ touched' = {}
            /\ UNCHANGED <<count_, held>>
  /\ dcalls' = <<>>
  /\ UNCHANGED <<entry_, num_fills_, first_fill_time_, now, dcheck, free, status,
                 fill_log>>

\* if (count_ < capacity()) { entry_[count_++].fill(hprec); return true; }
\* return false;
try_put_room_incl == count_ <= kCapacity

try_put_room == count_ < kCapacity

try_put(hprec) ==
  /\ Called
  /\ IF try_put_room
       THEN /\ entry_' = entry_fill(entry_, count_, hprec)
            /\ count_' = Uint8(count_ + 1)
            /\ touched' = {count_}
            /\ op' = Call("try_put", hprec, TRUE, Null)
            /\ held' = held \ {hprec}
       ELSE /\ op' = Call("try_put", hprec, FALSE, Null)
            /\ touched' = {}
            /\ UNCHANGED <<entry_, count_, held>>
  /\ dcalls' = <<>>
  /\ UNCHANGED <<num_fills_, first_fill_time_, now, dcheck, free, status,
                 fill_log>>

\* The log keeps the last max_fills + 1 runs of the check.
Logged(log, e) ==
  IF Len(log) <= max_fills THEN Append(log, e) ELSE Append(Tail(log), e)

\* (the check run one refill late)
fill_check_due_late(nf) == nf > max_fills + 1

\* The result of fill_should_not_be_called_frequently() called at time t.
fill_check_due(nf) == nf > max_fills

fill_check_passes_ge(dur) == dur >= period

fill_check_passes(dur) == dur > period

fill_should_not_be_called_frequently(nf, fft, t) ==
  IF nf = 0
    THEN [num_fills |-> Uint16(nf + 1), first_fill_time |-> t, fatal |-> FALSE]
    ELSE IF fill_check_due(Uint16(nf + 1))
      THEN IF fill_check_passes(t - fft)
             THEN [num_fills |-> 1, first_fill_time |-> t, fatal |-> FALSE]
             ELSE [num_fills |-> Uint16(nf + 1), first_fill_time |-> fft,
                   fatal |-> TRUE]
      ELSE [num_fills |-> Uint16(nf + 1), first_fill_time |-> fft,
            fatal |-> FALSE]

\* The state the loops of fill and evict work on.
Work(e, c, f) ==
  [entry |-> e, count |-> c, free |-> f, dcalls |-> <<>>, touched |-> {},
   ub |-> FALSE]

\* (the slot written before count_ is read: entry_[++count_])
fill_step_pre_incr(s) ==
  LET hprec == hprec_acquire(s.free) IN
  [s EXCEPT !.entry = entry_fill(s.entry, Uint8(s.count + 1), hprec),
            !.count = Uint8(s.count + 1),
            !.free = s.free \ {hprec},
            !.dcalls = Append(s.dcalls, <<"acquire", hprec>>),
            !.touched = s.touched \cup {Uint8(s.count + 1)}]

\* One iteration of fill's loop:
\*   auto hprec = domain.hprec_acquire(); entry_[count_++].fill(hprec);
\* A write past entry_[kCapacity - 1] is undefined behaviour.
fill_step(s) ==
  LET hprec == hprec_acquire(s.free) IN
  IF s.count \in Slots
    THEN [s EXCEPT !.entry = entry_fill(s.entry, s.count, hprec),
                   !.count = Uint8(s.count + 1),
                   !.free = s.free \ {hprec},
                   !.dcalls = Append(s.dcalls, <<"acquire", hprec>>),
                   !.touched = s.touched \cup {s.count}]
    ELSE [s EXCEPT !.count = Uint8(s.count + 1),
                   !.free = s.free \ {hprec},
                   !.dcalls = Append(s.dcalls, <<"acquire", hprec>>),
                   !.touched = s.touched \cup {s.count},
                   !.ub = TRUE]

RECURSIVE fill_loop(_, _)
fill_loop(s, left) ==
  IF left = 0 \/ s.ub THEN s ELSE fill_loop(fill_step(s), left - 1)

fill_dcheck_incl(num) == count_ + num <= kCapacity + 1

\* DCHECK_LE(count_ + num, capacity())
fill_dcheck(num) == count_ + num <= kCapacity

fill(num) ==
  /\ Called
  /\ Cardinality(free) >= num
  /\ IF dcheck /\ ~fill_dcheck(num)
       THEN /\ status' = "aborted"
            /\ op' = Call("fill", num, FALSE, Null)
            /\ dcalls' = <<>>
            /\ touched' = {}
            /\ UNCHANGED <<entry_, count_, num_fills_, first_fill_time_, free,
                           fill_log>>
       ELSE LET r == fill_should_not_be_called_frequently(
                       num_fills_, first_fill_time_, now) IN
            /\ num_fills_' = r.num_fills
            /\ first_fill_time_' = r.first_fill_time
            /\ fill_log' = Logged(fill_log, [t |-> now,
                                             start |-> r.first_fill_time = now
                                                       /\ r.num_fills = 1])
            /\ IF r.fatal
                 THEN /\ status' = "aborted"
                      /\ op' = Call("fill", num, FALSE, Null)
                      /\ dcalls' = <<>>
                      /\ touched' = {}
                      /\ UNCHANGED <<entry_, count_, free>>
                 ELSE LET s == fill_loop(Work(entry_, count_, free), num) IN
                      /\ entry_' = s.entry
                      /\ free' = s.free
                      /\ dcalls' = s.dcalls
                      /\ touched' = s.touched
                      /\ op' = Call("fill", num, ~s.ub, Null)
                      /\ IF s.ub
                           \* the stray write may land on count_, which
                           \* follows entry_ in the object
                           THEN /\ status' = "ub"
                                /\ count_' \in {s.count, 0, 255}
                           ELSE /\ status' = status
                                /\ count_' = s.count
  /\ UNCHANGED <<now, dcheck, held>>

\* hazptr_tc_entry::evict(): hprec_->release();
entry_evict(s, i) ==
  [s EXCEPT !.free = hprec_release(s.free, entry_get(s.entry, i)),
            !.dcalls = Append(s.dcalls, <<"release", entry_get(s.entry, i)>>),
            !.touched = s.touched \cup {i}]

\* (the slot read before count_ is written: entry_[count_--])
evict_step_post_decr(s) ==
  [entry_evict(s, s.count) EXCEPT !.count = Uint8(s.count + 255)]

\* One iteration of evict's loop: entry_[--count_].evict();
\* A read before entry_[0] wraps count_ to 255 and is undefined behaviour.
evict_step(s) ==
  LET c == Uint8(s.count + 255) IN
  IF c \in Slots
    THEN [entry_evict(s, c) EXCEPT !.count = c]
    ELSE [s EXCEPT !.count = c, !.touched = s.touched \cup {c}, !.ub = TRUE]

RECURSIVE evict_loop(_, _)
evict_loop(s, left) ==
  IF left = 0 \/ s.ub THEN s ELSE evict_loop(evict_step(s), left - 1)

\* DCHECK_GE(count_, num)
evict_dcheck(num) == count_ >= num

evict(num) ==
  /\ Called
  /\ IF dcheck /\ ~evict_dcheck(num)
       THEN /\ status' = "aborted"
            /\ op' = Call("evict", num, FALSE, Null)
            /\ dcalls' = <<>>
            /\ touched' = {}
            /\ UNCHANGED <<entry_, count_, free>>
       ELSE LET s == evict_loop(Work(entry_, count_, free), num) IN
            /\ entry_' = s.entry
            /\ count_' = s.count
            /\ free' = s.free
            /\ dcalls' = s.dcalls
            /\ touched' = s.touched
            /\ op' = Call("evict", num, ~s.ub, Null)
            /\ status' = IF s.ub THEN "ub" ELSE status
  /\ UNCHANGED <<num_fills_, first_fill_time_, now, dcheck, held, fill_log>>

\* ~hazptr_tc(): for (uint8_t i = 0; i < count(); ++i) entry_[i].evict();
dtor_more_incl(s, i) == i <= s.count

dtor_more(s, i) == i < s.count

RECURSIVE dtor_loop(_, _)
dtor_loop(s, i) ==
  IF dtor_more(s, i) THEN dtor_loop(entry_evict(s, i), i + 1) ELSE s

hazptr_tc_dtor ==
  /\ Called
  /\ LET s == dtor_loop(Work(entry_, count_, free), 0) IN
     /\ free' = s.free
     /\ dcalls' = s.dcalls
     /\ touched' = s.touched
  /\ status' = "destroyed"
  /\ op' = Call("dtor", 0, TRUE, Null)
  /\ UNCHANGED <<entry_, count_, num_fills_, first_fill_time_, now, dcheck, held,
                 fill_log>>

(***************************************************************************)
(* The environment of the cache: the steady clock, and the caller's        *)
(* fallback path straight to the domain on a cache miss / a full cache.    *)
(***************************************************************************)
Tick ==
  /\ status = "live"
  /\ now < MaxTime
  /\ now' = now + 1
  /\ UNCHANGED <<entry_, count_, num_fills_, first_fill_time_, dcheck, free, held,
                 status, op, dcalls, touched, ncalls, call_limit, fill_log>>
  /\ UNCHANGED <<privVars, colVars>>

caller_release(hprec) ==
  /\ Called
  /\ free' = hprec_release(free, hprec)
  /\ held' = held \ {hprec}
  /\ op' = Call("caller_release", hprec, TRUE, Null)
  /\ dcalls' = <<>>
  /\ touched' = {}
  /\ UNCHANGED <<entry_, count_, num_fills_, first_fill_time_, now, dcheck, status,
                 fill_log>>

(***************************************************************************)
(* hazptr_priv                                                             *)
(*                                                                         *)
(* The owning thread runs push and ~hazptr_priv one atomic access at a     *)
(* time.  stack holds its activations, the innermost last: a push begins   *)
(* on an idle thread, or reentrantly while the domain runs the bulk retire *)
(* of a flush (reclaiming an object may retire another one).               *)
(***************************************************************************)
Objs == 1..MaxSeqObjs

Frame(fn, pc, obj) == [fn |-> fn, pc |-> pc, obj |-> obj, h |-> Null, t |-> Null]

Top == stack[Len(stack)]

\* The innermost activation is at pc; the cache is left alone.
At(pc) ==
  /\ pstatus = "live"
  /\ stack # <<>>
  /\ Top.pc = pc
  /\ UNCHANGED <<tcVars, colVars>>

Goto(pc) == stack' = [stack EXCEPT ![Len(stack)].pc = pc]

\* Return from the innermost activation; ~hazptr_priv ends the object.
Return ==
  /\ stack' = SubSeq(stack, 1, Len(stack) - 1)
  /\ pstatus' = IF Top.fn = "dtor" THEN "destroyed" ELSE pstatus

\* The objects linked from n by next-links, n first.
RECURSIVE Chain(_, _, _)
Chain(n, nx, fuel) ==
  IF n = Null \/ fuel = 0 THEN <<>> ELSE <<n>> \o Chain(nx[n], nx, fuel - 1)

\* hazptr_obj_list<Atom> l(h, t, count), as the domain receives it.
hazptr_obj_list(h, t, c) ==
  [head |-> h, tail |-> t, count |-> c, chain |-> Chain(h, next_, MaxSeqObjs + 1)]

PrivInit ==
  /\ head_ = Null
  /\ tail_ = Null
  /\ rcount_ = 0
  /\ in_dtor_ = FALSE
  /\ next_ = [o \in Objs |-> Null]
  /\ stack = <<>>
  /\ retired = <<>>
  /\ nobjs = 0
  /\ pstatus = "live"

\* A call of push(obj) begins, obj an object not retired before.
CanEnter ==
  \/ stack = <<>>
  \/ /\ stack # <<>>
     /\ Top.pc = "in_domain"
     /\ Len(stack) < MaxDepth

push_call(limit) ==
  /\ pstatus = "live"
  /\ nobjs < limit
  /\ nobjs' = nobjs + 1
  /\ stack' = Append(stack, Frame("push", "push", nobjs + 1))
  /\ UNCHANGED <<head_, tail_, rcount_, in_dtor_, next_, retired, pstatus>>
  /\ UNCHANGED <<tcVars, colVars>>

push_begin == CanEnter /\ push_call(MaxObjs)

\* A call of push(obj) begins while no other call of this buffer runs.
push_begin_seq == stack = <<>> /\ push_call(MaxSeqObjs)

\* (in_dtor_ not consulted)
push_unconditional ==
  /\ At("push")
  /\ Goto("loop")
  /\ UNCHANGED <<head_, tail_, rcount_, in_dtor_, next_, retired, nobjs, pstatus>>

\* push: if (!in_dtor_) push_in_priv_list(obj); else { l(obj); ... }
push ==
  /\ At("push")
  /\ Goto(IF ~in_dtor_ THEN "loop" ELSE "bypass")
  /\ UNCHANGED <<head_, tail_, rcount_, in_dtor_, next_, retired, nobjs, pstatus>>

\* push_in_priv_list: while (true) { if (tail()) ... else ... }
push_in_priv_list ==
  /\ At("loop")
  /\ Goto(IF tail_ # Null THEN "ne" ELSE "e_cas")
  /\ UNCHANGED <<head_, tail_, rcount_, in_dtor_, next_, retired, nobjs, pstatus>>

\* push_in_non_empty_list: auto h = head(); if (h) { obj->set_next(h); ...
push_in_non_empty_list ==
  /\ At("ne")
  /\ IF head_ # Null
       THEN /\ next_' = [next_ EXCEPT ![Top.obj] = head_]
            /\ stack' = [stack EXCEPT ![Len(stack)].pc = "ne_cas",
                                      ![Len(stack)].h = head_]
       ELSE /\ Goto("loop")
            /\ UNCHANGED next_
  /\ UNCHANGED <<head_, tail_, rcount_, in_dtor_, retired, nobjs, pstatus>>

\* (an exchange that does not compare)
cas_blind(cur, expected, ok) == ok

\* compare_exchange_weak: fails when the value differs, and may fail when
\* it does not.
cas_weak(cur, expected, ok) == ok /\ cur = expected

\* ... if (cas_head(h, obj)) return true; } return false;
cas_head ==
  /\ At("ne_cas")
  /\ \E ok \in BOOLEAN :
       IF cas_weak(head_, Top.h, ok)
         THEN /\ head_' = Top.obj
              /\ Goto("incr")
         ELSE /\ Goto("loop")
              /\ UNCHANGED head_
  /\ UNCHANGED <<tail_, rcount_, in_dtor_, next_, retired, nobjs, pstatus>>

\* push_in_empty_list: obj->set_next(nullptr); if (cas_tail(t, obj)) ...
cas_tail ==
  /\ At("e_cas")
  /\ next_' = [next_ EXCEPT ![Top.obj] = Null]
  /\ \E ok \in BOOLEAN :
       IF cas_weak(tail_, Null, ok)
         THEN /\ tail_' = Top.obj
              /\ Goto("e_set_head")
         ELSE /\ Goto("loop")
              /\ UNCHANGED tail_
  /\ UNCHANGED <<head_, rcount_, in_dtor_, retired, nobjs, pstatus>>

\* (the store to head_ left out)
set_head_skip ==
  /\ At("e_set_head")
  /\ Goto("incr")
  /\ UNCHANGED <<head_, tail_, rcount_, in_dtor_, next_, retired, nobjs,
                 pstatus>>

\* ... { set_head(obj); return true; }
set_head ==
  /\ At("e_set_head")
  /\ head_' = Top.obj
  /\ Goto("incr")
  /\ UNCHANGED <<tail_, rcount_, in_dtor_, next_, retired, nobjs, pstatus>>

\* (the threshold passed, not reached)
at_threshold_gt(rc) == rc > kThreshold

\* if (++rcount_ >= kThreshold) push_all_to_domain();
at_threshold(rc) == rc >= kThreshold

incr_rcount ==
  /\ At("incr")
  /\ rcount_' = rcount_ + 1
  /\ IF at_threshold(rcount_ + 1)
       THEN /\ Goto("xchg_head")
            /\ UNCHANGED pstatus
       ELSE Return
  /\ UNCHANGED <<head_, tail_, in_dtor_, next_, retired, nobjs>>

\* collect: auto h = exchange_head(); if (h) ...
\* push_all_to_domain: if (h) ... : neither does anything more on an empty
\* list.
exchange_head ==
  /\ At("xchg_head")
  /\ head_' = Null
  /\ IF head_ # Null
       THEN /\ stack' = [stack EXCEPT ![Len(stack)].pc = "xchg_tail",
                                      ![Len(stack)].h = head_]
            /\ UNCHANGED pstatus
       ELSE Return
  /\ UNCHANGED <<tail_, rcount_, in_dtor_, next_, retired, nobjs>>

\* (the tail read, not exchanged)
exchange_tail_load ==
  /\ At("xchg_tail")
  /\ stack' = [stack EXCEPT ![Len(stack)].pc = "retire",
                            ![Len(stack)].t = tail_]
  /\ UNCHANGED <<head_, tail_, rcount_, in_dtor_, next_, retired, nobjs,
                 pstatus>>

\* collect: auto t = exchange_tail(); DCHECK(t); colHead = h; colTail = t;
exchange_tail ==
  /\ At("xchg_tail")
  /\ tail_' = Null
  /\ IF dcheck /\ tail_ = Null
       THEN /\ pstatus' = "aborted"
            /\ UNCHANGED stack
       ELSE /\ stack' = [stack EXCEPT ![Len(stack)].pc = "retire",
                                      ![Len(stack)].t = tail_]
            /\ UNCHANGED pstatus
  /\ UNCHANGED <<head_, rcount_, in_dtor_, next_, retired, nobjs>>

\* push_all_to_domain: hazptr_obj_list<Atom> l(h, t, rcount_);
\*                     hazptr_domain_push_retired<Atom>(l);
push_retired ==
  /\ At("retire")
  /\ retired' = Append(retired, hazptr_obj_list(Top.h, Top.t, rcount_))
  /\ Goto("in_domain")
  /\ UNCHANGED <<head_, tail_, rcount_, in_dtor_, next_, nobjs, pstatus>>

\* push, torn down: hazptr_obj_list<Atom> l(obj);
\*                  hazptr_domain_push_retired<Atom>(l);
push_bypass ==
  /\ At("bypass")
  /\ retired' = Append(retired, [head |-> Top.obj, tail |-> Top.obj,
                                 count |-> 1, chain |-> <<Top.obj>>])
  /\ Goto("in_domain")
  /\ UNCHANGED <<head_, tail_, rcount_, in_dtor_, next_, nobjs, pstatus>>

\* hazptr_domain_push_retired returns; push_all_to_domain: rcount_ = 0;
domain_return ==
  /\ At("in_domain")
  /\ IF Top.h = Null
       THEN Return
       ELSE /\ Goto("reset")
            /\ UNCHANGED pstatus
  /\ UNCHANGED <<head_, tail_, rcount_, in_dtor_, next_, retired, nobjs>>

reset_rcount ==
  /\ At("reset")
  /\ rcount_' = 0
  /\ Return
  /\ UNCHANGED <<head_, tail_, in_dtor_, next_, retired, nobjs>>

\* (a buffer taken to be empty whatever it holds)
empty_always == TRUE

\* ~hazptr_priv: in_dtor_ = true; if (!empty()) push_all_to_domain();
empty == head_ = Null

hazptr_priv_dtor ==
  /\ pstatus = "live"
  /\ stack = <<>>
  /\ ~in_dtor_
  /\ in_dtor_' = TRUE
  /\ IF ~empty
       THEN /\ stack' = <<Frame("dtor", "xchg_head", Null)>>
            /\ UNCHANGED pstatus
       ELSE /\ pstatus' = "destroyed"
            /\ UNCHANGED stack
  /\ UNCHANGED <<head_, tail_, rcount_, next_, retired, nobjs>>
  /\ UNCHANGED <<tcVars, colVars>>

\* (the tail exchanged first by the domain's collect)
collect_exchange_tail_first ==
  /\ pstatus = "live"
  /\ collector.pc = "idle"
  /\ collector.n < MaxCollects
  /\ tail_' = Null
  /\ collector' = [pc |-> IF head_ # Null THEN "xchg_tail" ELSE "idle",
                   h |-> head_, n |-> collector.n + 1]
  /\ UNCHANGED <<head_, rcount_, in_dtor_, next_, stack, retired, nobjs,
                 pstatus, segments>>
  /\ UNCHANGED tcVars

\* collect, called by hazptr_domain (a friend) from another thread with
\* colHead = colTail = nullptr: auto h = exchange_head(); if (h) ...
collect_exchange_head ==
  /\ pstatus = "live"
  /\ collector.pc = "idle"
  /\ collector.n < MaxCollects
  /\ head_' = Null
  /\ collector' = [pc |-> IF head_ # Null THEN "xchg_tail" ELSE "idle",
                   h |-> head_, n |-> collector.n + 1]
  /\ UNCHANGED <<tail_, rcount_, in_dtor_, next_, stack, retired, nobjs,
                 pstatus, segments>>
  /\ UNCHANGED tcVars

\* ... { auto t = exchange_tail(); DCHECK(t); colHead = h; colTail = t; }
collect_exchange_tail ==
  /\ pstatus = "live"
  /\ collector.pc = "xchg_tail"
  /\ tail_' = Null
  /\ IF dcheck /\ tail_ = Null
       THEN /\ pstatus' = "aborted"
            /\ UNCHANGED <<collector, segments>>
       ELSE /\ segments' = Append(segments,
                 [head |-> collector.h, tail |-> tail_,
                  chain |-> Chain(collector.h, next_, MaxSeqObjs + 1)])
            /\ collector' = [collector EXCEPT !.pc = "idle", !.h = Null]
            /\ UNCHANGED pstatus
  /\ UNCHANGED <<head_, rcount_, in_dtor_, next_, stack, retired, nobjs>>
  /\ UNCHANGED tcVars

ColInit ==
  /\ collector = [pc |-> "idle", h |-> Null, n |-> 0]
  /\ segments = <<>>

Init == TcInit(MaxCalls) /\ PrivInit /\ ColInit

(***************************************************************************)
(* Spec: every sequence of at most MaxCalls calls on one cache, within one *)
(* reading of the clock.                                                   *)
(***************************************************************************)
Next ==
  \/ try_get
  \/ \E h \in held : try_put(h)
  \/ \E n \in 0..MaxNum : fill(n)
  \/ \E n \in 0..MaxNum : evict(n)
  \/ hazptr_tc_dtor
  \/ \E h \in held : caller_release(h)

Spec == Init /\ [][Next]_vars

(***************************************************************************)
(* SpecRate: refills of the cache, one record or none at a time, while the *)
(* clock runs.                                                             *)
(***************************************************************************)
InitRate == TcInit(MaxRateCalls) /\ PrivInit /\ ColInit

NextRate ==
  \/ \E n \in 0..1 : fill(n)
  \/ Tick

SpecRate == InitRate /\ [][NextRate]_vars

(***************************************************************************)
(* SpecPriv: one thread retiring objects through its hazptr_priv, with     *)
(* reentrant retirement from inside the domain, until the thread exits.    *)
(***************************************************************************)
NextPriv ==
  \/ push_begin
  \/ push
  \/ push_in_priv_list
  \/ push_in_non_empty_list
  \/ cas_head
  \/ cas_tail
  \/ set_head
  \/ incr_rcount
  \/ exchange_head
  \/ exchange_tail
  \/ push_retired
  \/ push_bypass
  \/ domain_return
  \/ reset_rcount
  \/ hazptr_priv_dtor

SpecPriv == Init /\ [][NextPriv]_vars

(***************************************************************************)
(* SpecSeq: one thread retiring objects one after the other, every push    *)
(* returning before the next begins, the thread not exiting.               *)
(***************************************************************************)
NextSeq ==
  \/ push_begin_seq
  \/ push
  \/ push_in_priv_list
  \/ push_in_non_empty_list
  \/ cas_head
  \/ cas_tail
  \/ set_head
  \/ incr_rcount
  \/ exchange_head
  \/ exchange_tail
  \/ push_retired
  \/ domain_return
  \/ reset_rcount

SpecSeq == Init /\ [][NextSeq]_vars

(***************************************************************************)
(* SpecRace: one thread retiring objects through its hazptr_priv while the *)
(* domain, on another thread, calls collect on it; every atomic access is  *)
(* a step.                                                                 *)
(***************************************************************************)
OwnerNext ==
  \/ push_begin
  \/ push
  \/ push_in_priv_list
  \/ push_in_non_empty_list
  \/ cas_head
  \/ cas_tail
  \/ set_head
  \/ incr_rcount
  \/ exchange_head
  \/ exchange_tail
  \/ push_retired
  \/ domain_return
  \/ reset_rcount

NextRace ==
  \/ OwnerNext
  \/ collect_exchange_head
  \/ collect_exchange_tail

SpecRace == Init /\ [][NextRace]_vars

(***************************************************************************)
(* SpecRaceFair: SpecRace where the owning thread keeps running and a      *)
(* compare_exchange_weak that is tried again and again on the expected     *)
(* value does not fail every time. Nothing is assumed of the domain's      *)
(* thread: it may stop anywhere, between the two exchanges of collect too. *)
(***************************************************************************)
cas_head_succeeds == cas_head /\ head_' # head_

cas_tail_succeeds == cas_tail /\ tail_' # tail_

SpecRaceFair ==
  /\ SpecRace
  /\ WF_vars(OwnerNext)
  /\ SF_vars(cas_head_succeeds)
  /\ SF_vars(cas_tail_succeeds)

(***************************************************************************)
(* Properties of hazptr_tc, under Spec.                                    *)
(***************************************************************************)
\* The step is a call of the operation `name`.
IsCall(name) == ncalls' = ncalls + 1 /\ op'.name = name

Places(h) ==
  Cardinality({i \in 0..(count_ - 1) : i \in Slots /\ entry_[i] = h})
    + (IF h \in free THEN 1 ELSE 0) + (IF h \in held THEN 1 ELSE 0)

\* C1: while no call has broken a precondition (no fatal check, no
\* undefined behaviour), count_ is in [0, kCapacity] and the last call
\* touched only slots 0 .. kCapacity - 1.
C1_CountBound ==
  status \in {"live", "destroyed"} =>
    /\ count_ \in 0..kCapacity
    /\ touched \subseteq Slots

C1_Witness ==
  /\ status = "live"
  /\ count_ = kCapacity
  /\ op.name = "try_put"
  /\ touched = {kCapacity - 1}

\* C2: on a live cache every record is in exactly one place: inactive in
\* the domain, in exactly one occupied slot, or held by the caller; and the
\* records a call acquired from the domain are distinct and no longer
\* inactive.
C2_Conservation ==
  status = "live" =>
    /\ \A h \in Handles : Places(h) = 1
    /\ \A i \in 0..(count_ - 1) : entry_[i] \in Handles
    /\ \A i, j \in 1..Len(dcalls) :
         (dcalls[i][1] = "acquire" /\ dcalls[j][1] = "acquire" /\ i # j)
           => dcalls[i][2] # dcalls[j][2]
    /\ \A i \in 1..Len(dcalls) :
         dcalls[i][1] = "acquire" => dcalls[i][2] \notin free

C2_Witness ==
  /\ status = "live"
  /\ count_ = kCapacity
  /\ op.name = "try_put"
  /\ ~op.ok
  /\ op.arg \in held
  /\ free = {}

\* C3: the destructor of a cache with k occupied slots makes exactly k
\* calls to the domain, the release of the record of slot 0, 1, .. k - 1,
\* and releases no record the caller holds.
C3_Teardown ==
  status = "destroyed" =>
    /\ Len(dcalls) = count_
    /\ \A i \in 1..count_ : dcalls[i] = <<"release", entry_[i - 1]>>
    /\ touched = 0..(count_ - 1)
    /\ \A i \in 1..Len(dcalls) : dcalls[i][2] \notin held

C3_Witness ==
  /\ status = "destroyed"
  /\ count_ = 3
  /\ Cardinality(held) = 3
  /\ Len(dcalls) = 3

LifoStep ==
  /\ (IsCall("try_get") /\ count_ > 0) =>
      /\ op'.ok
      /\ op'.ret = entry_[count_ - 1]
      /\ count_' = count_ - 1
      /\ entry_' = entry_
  /\ (IsCall("try_put") /\ count_ < kCapacity) =>
      /\ op'.ok
      /\ count_' = count_ + 1
      /\ entry_' = [entry_ EXCEPT ![count_] = op'.arg]
  /\ (IsCall("try_get") /\ op.name = "try_put" /\ op.ok) =>
      /\ op'.ret = op.arg
      /\ count_' = count_ - 1
      /\ \A i \in 0..(count_' - 1) : entry_'[i] = entry_[i]

\* C4: try_get on a non-empty cache returns the record of the top occupied
\* slot and decrements count_; try_put on a cache with room stores the
\* record in the next free slot, increments count_ and returns true; a
\* try_get right after a successful try_put(h) returns h.  No slot but the
\* one written changes.
C4_Lifo == [][LifoStep]_vars

C4_Witness ==
  /\ op.name = "try_get"
  /\ op.ok
  /\ count_ = 2
  /\ op.ret = entry_[2]
  /\ entry_[1] > entry_[2]

MissFullStep ==
  /\ (IsCall("try_get") /\ count_ = 0) =>
      /\ ~op'.ok
      /\ op'.ret = Null
      /\ count_' = count_
      /\ entry_' = entry_
  /\ (IsCall("try_put") /\ count_ = kCapacity) =>
      /\ ~op'.ok
      /\ count_' = count_
      /\ entry_' = entry_
  /\ (IsCall("try_get") \/ IsCall("try_put")) =>
      /\ dcalls' = <<>>
      /\ free' = free

\* C5: try_get on an empty cache returns null and try_put on a full cache
\* returns false, both leaving count_ and every slot as they were; neither
\* try_get nor try_put ever calls the domain.
C5_MissFull == [][MissFullStep]_vars

C5_Witness ==
  /\ op.name = "try_get"
  /\ ~op.ok
  /\ count_ = 0
  /\ ncalls > 1

FillStep ==
  (IsCall("fill") /\ count_ + op'.arg <= kCapacity /\ status' = "live") =>
    /\ Len(dcalls') = op'.arg
    /\ \A i \in 1..op'.arg : dcalls'[i][1] = "acquire"
    /\ count_' = count_ + op'.arg
    /\ \A i \in Slots :
         entry_'[i] = IF i \in count_..(count_ + op'.arg - 1)
                        THEN dcalls'[i - count_ + 1][2]
                        ELSE entry_[i]

\* C6: a fill(n) with count_ + n <= kCapacity that returns has made exactly
\* n calls to the domain, all acquires, has stored the n records in slots
\* count_ .. count_ + n - 1 in the order acquired, has raised count_ by n
\* and has changed no other slot.
C6_Fill == [][FillStep]_vars

C6_Witness ==
  /\ op.name = "fill"
  /\ op.arg = 2
  /\ count_ = 5
  /\ status = "live"
  /\ held # {}

EvictStep ==
  (IsCall("evict") /\ op'.arg <= count_) =>
    /\ Len(dcalls') = op'.arg
    /\ \A i \in 1..op'.arg : dcalls'[i] = <<"release", entry_[count_ - i]>>
    /\ count_' = count_ - op'.arg
    /\ entry_' = entry_
    /\ status' = "live"

\* C7: an evict(n) with n <= count_ makes exactly n calls to the domain,
\* the releases of the records of the top n occupied slots from the top
\* downwards, lowers count_ by n and changes no slot.
C7_Evict == [][EvictStep]_vars

C7_Witness ==
  /\ op.name = "evict"
  /\ op.arg = 2
  /\ count_ = 3
  /\ status = "live"
  /\ Len(dcalls) = 2

\* The call of the step breaks the precondition of fill or of evict.
Undisciplined ==
  \/ IsCall("fill") /\ count_ + op'.arg > kCapacity
  \/ IsCall("evict") /\ op'.arg > count_

NoEffect ==
  /\ entry_' = entry_
  /\ count_' = count_
  /\ free' = free
  /\ dcalls' = <<>>
  /\ touched' = {}

\* C8 as claimed: a fill or evict that breaks its precondition aborts with
\* no domain call and no change of count_ or of a slot.
C8_Original == [][Undisciplined => (status' = "aborted" /\ NoEffect)]_vars

DisciplineStep == (Undisciplined /\ dcheck) => (status' = "aborted" /\ NoEffect)

\* C8 amended: in a build where DCHECK is active, a fill or evict that
\* breaks its precondition aborts with no domain call and no change of
\* count_ or of a slot (where DCHECK is compiled out the call is not
\* checked).
C8_Amended == [][DisciplineStep]_vars

C8_Witness ==
  /\ dcheck
  /\ status = "aborted"
  /\ op.name = "fill"
  /\ count_ = 5
  /\ op.arg = 2

(***************************************************************************)
(* Properties of the refill-rate check, under SpecRate.                    *)
(***************************************************************************)
\* The last max_fills + 1 runs of the check lie within `period`.
Storm ==
  /\ Len(fill_log) = max_fills + 1
  /\ fill_log[max_fills + 1].t - fill_log[1].t <= period

\* C9 as claimed: whenever the last 11 calls of fill lie within 1 ms, the
\* fatal diagnostic has been raised.
C9_Original == Storm => status = "aborted"

\* C9 amended: whenever the last 11 calls of fill lie within 1 ms and the
\* first of them began a window (it was the first fill of the cache, or the
\* check passed on it), the fatal diagnostic has been raised.
C9_Amended == (Storm /\ fill_log[1].start) => status = "aborted"

C9_Witness ==
  /\ Storm
  /\ fill_log[1].start
  /\ fill_log[1].t > 0
  /\ fill_log[max_fills + 1].t = fill_log[1].t + period
  /\ status = "aborted"

\* The step is the k-th call of fill, and not one a DCHECK stops before
\* the refill-rate check.
FillCall(k) ==
  /\ IsCall("fill")
  /\ ncalls' = k
  /\ dcheck => fill_dcheck(op'.arg)

RateStep ==
  \A k \in 1..MaxRateCalls :
    FillCall(k) =>
      IF k > 1 /\ k % max_fills = 1
        THEN /\ Len(fill_log') = max_fills + 1
             /\ first_fill_time_ = fill_log'[1].t
             /\ status' = "aborted" <=> ~(now - fill_log'[1].t > period)
             /\ status' # "aborted" =>
                  /\ num_fills_' = 1
                  /\ first_fill_time_' = now
        ELSE /\ status' # "aborted"
             /\ num_fills_' = IF k = 1 THEN 1 ELSE num_fills_ + 1
             /\ first_fill_time_' = IF k = 1 THEN now ELSE first_fill_time_

\* C18: the refill-rate check runs on the calls of fill numbered 11, 21,
\* ... and on no other; on call 10k + 1 it compares the clock with its
\* reading at call 10(k - 1) + 1 and is fatal exactly when the difference
\* is not greater than period; when it passes, the window restarts at this
\* call, counted as its first refill.
C18_Cadence == [][RateStep]_vars

\* The check of call 11 has passed, 2 ms after call 1, and the check of call
\* 21 is fatal, less than 1 ms after call 11.
C18_Witness ==
  /\ status = "aborted"
  /\ ncalls = 2 * max_fills + 1
  /\ op.name = "fill"
  /\ Len(fill_log) = max_fills + 1
  /\ fill_log[1].start
  /\ fill_log[1].t = 2 * period
  /\ fill_log[max_fills + 1].t = 2 * period
  /\ first_fill_time_ = 2 * period

(***************************************************************************)
(* Properties of hazptr_priv, under SpecPriv.                              *)
(***************************************************************************)
\* No call of the buffer is running, or the thread is inside the domain's
\* bulk retire, where a reentrant push can begin.
Quiescent == stack = <<>> \/ Top.pc = "in_domain"

\* C10: between the operations of the buffer, and wherever a reentrant push
\* can begin, head_ and tail_ are both null or both non-null.
C10_HeadTailPaired == Quiescent => ((head_ = Null) <=> (tail_ = Null))

C10_Witness ==
  /\ stack # <<>>
  /\ Top.pc = "in_domain"
  /\ Top.fn = "push"
  /\ Top.h # Null
  /\ head_ # Null
  /\ tail_ # Null

\* The buffered list, as reachable from head_ by next-links.
List == Chain(head_, next_, MaxSeqObjs + 1)

Occurrences(seq, o) == Cardinality({i \in DOMAIN seq : seq[i] = o})

\* The batches handed to the domain that hold o.
BatchesOf(o) == {i \in DOMAIN retired : Occurrences(retired[i].chain, o) > 0}

\* The list is empty with both ends null, or it ends at tail_, whose next
\* is null.
EndsAtTail ==
  IF head_ = Null
    THEN tail_ = Null
    ELSE /\ tail_ # Null
         /\ List[Len(List)] = tail_
         /\ next_[tail_] = Null

\* C11: between the operations of the buffer (reentrant pushes from inside
\* the domain's bulk retire included), every pushed object is either once
\* on the list from head_, which ends at tail_, or in exactly one batch
\* handed to the domain, once; never both, never neither.
C11_NoLossNoDup ==
  (Quiescent /\ pstatus # "aborted") =>
    /\ EndsAtTail
    /\ \A o \in 1..nobjs :
         \/ /\ Occurrences(List, o) = 1
            /\ BatchesOf(o) = {}
         \/ /\ Occurrences(List, o) = 0
            /\ Cardinality(BatchesOf(o)) = 1
            /\ \A i \in BatchesOf(o) : Occurrences(retired[i].chain, o) = 1

C11_Witness ==
  /\ Len(stack) = 1
  /\ Top.pc = "in_domain"
  /\ Top.fn = "push"
  /\ Len(retired) = 2
  /\ Len(List) = 1
  /\ nobjs = kThreshold + 2

\* C12: whenever no call of the buffer is running (so no collect and no
\* flush is in progress), rcount_ is the number of objects on the list
\* from head_.
C12_CountAccurate ==
  (stack = <<>> /\ pstatus = "live") => rcount_ = Len(List)

Elems(seq) == {seq[i] : i \in DOMAIN seq}

\* The pushed objects no batch holds.
Undelivered == {o \in 1..nobjs : BatchesOf(o) = {}}

\* A step of ~hazptr_priv itself, not of a push nested in it.
DtorStep == Len(stack) = 1 /\ stack[1].fn = "dtor" /\ Len(stack') <= 1

TeardownStep ==
  /\ (~in_dtor_ /\ in_dtor_') =>
       /\ retired' = retired
       /\ Elems(List) = Undelivered
       /\ pstatus' = IF List = <<>> THEN "destroyed" ELSE "live"
  /\ DtorStep =>
       IF Top.pc = "retire"
         THEN /\ Undelivered # {}
              /\ \E b \in {retired'[Len(retired')]} :
                   /\ retired' = Append(retired, b)
                   /\ Elems(b.chain) = Undelivered
                   /\ Len(b.chain) = Cardinality(Undelivered)
         ELSE retired' = retired
  /\ pstatus' = "destroyed" =>
       /\ head_' = Null
       /\ tail_' = Null
       /\ \A o \in 1..nobjs' :
            \E i \in DOMAIN retired' :
              /\ Occurrences(retired'[i].chain, o) = 1
              /\ \A k \in DOMAIN retired' :
                   k # i => Occurrences(retired'[k].chain, o) = 0

\* C14: ~hazptr_priv on a buffer holding m objects hands the domain nothing
\* when m = 0 and otherwise one batch, with exactly those m objects; when
\* it has returned head_ and tail_ are null and every object ever pushed
\* is in exactly one batch, once.
C14_Teardown == [][TeardownStep]_vars

C14_Witness ==
  /\ pstatus = "destroyed"
  /\ nobjs = kThreshold + 2
  /\ Len(retired) = 2
  /\ Len(retired[2].chain) = 2

Singleton(obj) == [head |-> obj, tail |-> obj, count |-> 1, chain |-> <<obj>>]

BypassStep ==
  /\ in_dtor_ => in_dtor_'
  /\ (\E i \in DOMAIN stack : stack[i].fn = "dtor") => in_dtor_
  /\ (in_dtor_ /\ stack # <<>> /\ Top.fn = "push") =>
       /\ UNCHANGED <<head_, tail_, rcount_, next_>>
       /\ Top.pc = "push" => Top'.pc = "bypass"
       /\ retired' = IF Top.pc = "bypass"
                       THEN Append(retired, Singleton(Top.obj))
                       ELSE retired

\* C15: in_dtor_ is set while ~hazptr_priv flushes and is never cleared;
\* every step of a push made once it is set leaves head_, tail_, rcount_
\* and every next-link unchanged, and the push hands the domain one batch,
\* holding its object alone.
C15_Bypass == [][BypassStep]_vars

C15_Witness ==
  /\ in_dtor_
  /\ Len(stack) = 3
  /\ stack[1].fn = "dtor"
  /\ Top.fn = "push"
  /\ Top.pc = "in_domain"
  /\ retired[Len(retired)] = Singleton(Top.obj)
  /\ retired[Len(retired) - 1] = Singleton(stack[2].obj)

\* C20: every list handed to the domain carries as its count the number of
\* objects on its chain from head to tail.
C20_BatchCount ==
  \A i \in DOMAIN retired : retired[i].count = Len(retired[i].chain)

(***************************************************************************)
(* Properties of hazptr_priv under SpecSeq.                                *)
(***************************************************************************)
\* The objects of the i-th run of kThreshold pushes.
Run(i) == (kThreshold * (i - 1) + 1)..(kThreshold * i)

\* C13: pushing one object after the other from an empty buffer, without
\* reentrancy or teardown: the domain has received one batch per completed
\* run of kThreshold pushes and none during the other pushes; the i-th
\* batch holds exactly the kThreshold objects of the i-th run; and after N
\* pushes N mod kThreshold objects are buffered with rcount_ saying so,
\* head_ and tail_ being null when that is 0.
C13_ThresholdFlush ==
  /\ \A i \in DOMAIN retired :
       /\ retired[i].count = kThreshold
       /\ Len(retired[i].chain) = kThreshold
       /\ {retired[i].chain[j] : j \in DOMAIN retired[i].chain} = Run(i)
  /\ nobjs % kThreshold # 0 => Len(retired) = nobjs \div kThreshold
  /\ Len(retired) \in {(nobjs - 1) \div kThreshold, nobjs \div kThreshold}
  /\ stack = <<>> =>
       /\ Len(retired) = nobjs \div kThreshold
       /\ rcount_ = nobjs % kThreshold
       /\ Len(List) = nobjs % kThreshold
       /\ nobjs % kThreshold = 0 => (head_ = Null /\ tail_ = Null)

C13_Witness ==
  /\ stack = <<>>
  /\ nobjs = 2 * kThreshold + 5
  /\ Len(retired) = 2
  /\ rcount_ = 5
  /\ Len(List) = 5

(***************************************************************************)
(* Properties of hazptr_priv with a concurrent collect, under SpecRace.    *)
(***************************************************************************)
\* The lists among bs that hold o.
Held(bs, o) == {i \in DOMAIN bs : Occurrences(bs[i].chain, o) > 0}

\* The next-links from b.head reach b.tail, where they end.
WellFormed(b) ==
  /\ b.head # Null
  /\ b.tail # Null
  /\ b.chain # <<>>
  /\ b.chain[Len(b.chain)] = b.tail
  /\ \A i, j \in DOMAIN b.chain : i # j => b.chain[i] # b.chain[j]

\* C16: with collects by the domain interleaved at every atomic access with
\* the owner's pushes, every segment a collect returned is a chain from its
\* head to its tail; and once push and collect have both returned, every
\* pushed object is in exactly one place, once: the buffered list, one
\* segment a collect of the domain detached, or one batch of a flush.
C16_RaceSafe ==
  /\ \A i \in DOMAIN segments : WellFormed(segments[i])
  /\ (Quiescent /\ collector.pc = "idle" /\ pstatus # "aborted") =>
       \A o \in 1..nobjs :
         /\ Occurrences(List, o) + Cardinality(Held(segments, o))
              + Cardinality(Held(retired, o)) = 1
         /\ \A i \in Held(segments, o) :
              Occurrences(segments[i].chain, o) = 1
         /\ \A i \in Held(retired, o) :
              Occurrences(retired[i].chain, o) = 1

\* A push that loaded head_ and linked its object before a collect took the
\* list, and then landed on the emptied buffer.
C16_Witness ==
  /\ stack = <<>>
  /\ collector.pc = "idle"
  /\ Len(segments) = 1
  /\ Len(segments[1].chain) = 2
  /\ nobjs = 3
  /\ List = <<3>>
  /\ next_[3] = Null

\* C19: at every step, with collects by the domain interleaved with the
\* owner's pushes and flushes, a non-null head_ comes with a non-null
\* tail_.
C19_HeadImpliesTail == head_ # Null => tail_ # Null

\* The reverse transient: a collect has taken head_ and not yet tail_,
\* while a push is looping.
C19_Witness ==
  /\ collector.pc = "xchg_tail"
  /\ stack # <<>>
  /\ Top.pc = "ne"
  /\ head_ = Null
  /\ tail_ # Null

(***************************************************************************)
(* Properties of hazptr_priv with a concurrent collect, under SpecRaceFair.*)
(***************************************************************************)
\* A push is in the loop of push_in_priv_list.
InRetryLoop ==
  /\ stack # <<>>
  /\ Top.pc \in {"loop", "ne", "ne_cas", "e_cas", "e_set_head"}

\* C17: whenever a push is in its retry loop, the owning thread's steps
\* alone take it out of the loop, whatever the domain's thread does or
\* fails to do.
C17_PushCompletes == InRetryLoop ~> ~InRetryLoop

====
